---- MODULE Spec2Model ----
(***************************************************************************)
(* Model of periodictable/formulas.py: the formula tree, the atom tally,   *)
(* Hill ordering, formula arithmetic, density / natural density, mixtures, *)
(* the formula grammar and string rendering.                               *)
(*                                                                         *)
(* Numbers are exact rationals [n, d] (d > 0, lowest terms); Python's int  *)
(* and float values that are numerically equal are the same rational, as   *)
(* Python's == has it.  None is the record [n |-> 0, d |-> 0].             *)
(***************************************************************************)
EXTENDS Integers, Sequences, FiniteSets, TLC

VARIABLES reg, last, steps

vars == <<reg, last, steps>>

---------------------------------------------------------------------------
(* Bounds of the model *)

\* operations applied in one behaviour of the arithmetic specification
MaxSteps == 3

---------------------------------------------------------------------------
(* Numbers *)

Abs(x) == IF x < 0 THEN -x ELSE x

RECURSIVE GCD(_, _)
GCD(x, y) == IF y = 0 THEN x ELSE GCD(y, x % y)

Rat(num, den) ==
    LET g == GCD(Abs(num), den)
    IN  [n |-> num \div g, d |-> den \div g]

Num(k) == [n |-> k, d |-> 1]

None == [n |-> 0, d |-> 0]

Zero == Num(0)

One == Num(1)

\* Python truth value of a number or None
Truthy(x) == x # None /\ x.n # 0

NumAdd(x, y) == Rat(x.n * y.d + y.n * x.d, x.d * y.d)

NumMul(x, y) == Rat(x.n * y.n, x.d * y.d)

\* x / y under "from __future__ import division"; y nonzero (a zero divisor
\* raises ZeroDivisionError, which the callers model)
NumDiv(x, y) ==
    IF y.n < 0 THEN Rat(-(x.n * y.d), x.d * (-y.n)) ELSE Rat(x.n * y.d, x.d * y.n)

NumLt(x, y) == x.n * y.d < y.n * x.d

NumGt(x, y) == NumLt(y, x)

RECURSIVE NumSum(_)
NumSum(s) == IF s = <<>> THEN Zero ELSE NumAdd(Head(s), NumSum(Tail(s)))

RECURSIVE NumMin(_)
NumMin(s) ==
    IF Len(s) = 1 THEN s[1]
    ELSE LET m == NumMin(Tail(s)) IN IF NumLt(m, s[1]) THEN m ELSE s[1]

---------------------------------------------------------------------------
(* The element table (periodictable.core): atoms are named by short keys.  *)
(* symbol is the atom's symbol as a character sequence, isotope its mass   *)
(* number (0 for an element), element the key of its element, own whether  *)
(* the isotope carries a symbol of its own (D), mass and density its data. *)

AtomTable ==
    [ H   |-> [symbol |-> <<"H">>, isotope |-> 0,  element |-> "H",
               own |-> FALSE, mass |-> Num(1),  density |-> Rat(1, 10)],
      D   |-> [symbol |-> <<"D">>, isotope |-> 2,  element |-> "H",
               own |-> TRUE,  mass |-> Num(2),  density |-> Rat(1, 5)],
      B   |-> [symbol |-> <<"B">>, isotope |-> 0,  element |-> "B",
               own |-> FALSE, mass |-> Num(11), density |-> Num(2)],
      C   |-> [symbol |-> <<"C">>, isotope |-> 0,  element |-> "C",
               own |-> FALSE, mass |-> Num(12), density |-> Num(2)],
      C13 |-> [symbol |-> <<"C">>, isotope |-> 13, element |-> "C",
               own |-> FALSE, mass |-> Num(13), density |-> Num(2)],
      O   |-> [symbol |-> <<"O">>, isotope |-> 0,  element |-> "O",
               own |-> FALSE, mass |-> Num(16), density |-> None],
      O17 |-> [symbol |-> <<"O">>, isotope |-> 17, element |-> "O",
               own |-> FALSE, mass |-> Num(17), density |-> None],
      O18 |-> [symbol |-> <<"O">>, isotope |-> 18, element |-> "O",
               own |-> FALSE, mass |-> Num(18), density |-> None],
      Ca  |-> [symbol |-> <<"C", "a">>, isotope |-> 0, element |-> "Ca",
               own |-> FALSE, mass |-> Num(40), density |-> Rat(3, 2)] ]

AllAtoms == DOMAIN AtomTable

NoAtom == "-"

_isisotope(val) == AtomTable[val].isotope # 0

AtomMass(el) == AtomTable[el].mass

\* el.element.mass, or el.mass when el has no element attribute
NaturalMass(el) == AtomTable[AtomTable[el].element].mass

---------------------------------------------------------------------------
(* Formula trees.  A sequence value is [kind, items]: kind tells a Python  *)
(* list from a tuple (they never compare equal), items are the nodes.  A   *)
(* node is [count, atom, frag]: a leaf has atom # NoAtom and frag = NoFrag,*)
(* a group has atom = NoAtom and frag a sequence value.                    *)

NoFrag == [kind |-> "none", items |-> <<>>]

Leaf(q, el) == [count |-> q, atom |-> el, frag |-> NoFrag]

Group(q, seq) == [count |-> q, atom |-> NoAtom, frag |-> seq]

TupleOf(nodes) == [kind |-> "tuple", items |-> nodes]

ListOf(nodes) == [kind |-> "list", items |-> nodes]

_isatom(node) == node.atom # NoAtom

\* number of leaves of a sequence value
RECURSIVE Leaves(_)
Leaves(seq) ==
    IF seq.items = <<>> THEN 0
    ELSE LET nd == Head(seq.items)
         IN  (IF _isatom(nd) THEN 1 ELSE Leaves(nd.frag))
             + Leaves([seq EXCEPT !.items = Tail(seq.items)])

\* nesting depth of a sequence value
RECURSIVE Depth(_)
Depth(seq) ==
    IF seq.items = <<>> THEN 1
    ELSE LET nd   == Head(seq.items)
             rest == Depth([seq EXCEPT !.items = Tail(seq.items)])
             here == IF _isatom(nd) THEN 1 ELSE 1 + Depth(nd.frag)
         IN  IF here > rest THEN here ELSE rest

---------------------------------------------------------------------------
(* The atom tally: a dict is a function from its key set to counts.        *)

EmptyDict == [el \in {} |-> Zero]

\* as DictAdd, but total[el] = v
DictAddMutant(total, el, v) ==
    [k \in DOMAIN total \cup {el} |-> IF k = el THEN v ELSE total[k]]

\* total[el] += v, with total[el] = 0 first when el is a new key
DictAdd(total, el, v) ==
    [k \in DOMAIN total \cup {el} |->
        IF k = el
        THEN NumAdd(IF el \in DOMAIN total THEN total[el] ELSE Zero, v)
        ELSE total[k]]

\* the inner loop of _count_atoms over the keys of partial
RECURSIVE MergeScaled(_, _, _, _)
MergeScaled(total, partial, keys, count) ==
    IF keys = {} THEN total
    ELSE LET el == CHOOSE k \in keys : TRUE
         IN  MergeScaled(DictAdd(total, el, NumMul(partial[el], count)),
                         partial, keys \ {el}, count)

RECURSIVE CountFrom(_, _)
CountFrom(items, total) ==
    IF items = <<>> THEN total
    ELSE LET nd      == Head(items)
             partial == IF _isatom(nd)
                        THEN [el \in {nd.atom} |-> One]
                        ELSE CountFrom(nd.frag.items, EmptyDict)
         IN  CountFrom(Tail(items),
                       MergeScaled(total, partial, DOMAIN partial, nd.count))

_count_atoms(seq) == CountFrom(seq.items, EmptyDict)

---------------------------------------------------------------------------
(* Characters and strings: a string is a sequence of one-character         *)
(* strings; Alphabet lists the characters in ASCII order.                  *)

UpperCase ==
    <<"A", "B", "C", "D", "E", "F", "G", "H", "I", "J", "K", "L", "M",
      "N", "O", "P", "Q", "R", "S", "T", "U", "V", "W", "X", "Y", "Z">>

LowerCase ==
    <<"a", "b", "c", "d", "e", "f", "g", "h", "i", "j", "k", "l", "m",
      "n", "o", "p", "q", "r", "s", "t", "u", "v", "w", "x", "y", "z">>

Digits == <<"0", "1", "2", "3", "4", "5", "6", "7", "8", "9">>

Alphabet ==
    <<"(", ")", "+", "-", ".">> \o Digits \o UpperCase \o <<"[", "]">> \o LowerCase

Range(s) == {s[i] : i \in DOMAIN s}

Ord(c) == CHOOSE i \in DOMAIN Alphabet : Alphabet[i] = c

\* cmp(x, y) on integers
IntCmp(x, y) == IF x < y THEN -1 ELSE IF x > y THEN 1 ELSE 0

\* cmp(s, t) on strings
RECURSIVE StrCmp(_, _)
StrCmp(s, t) ==
    IF s = <<>> THEN (IF t = <<>> THEN 0 ELSE -1)
    ELSE IF t = <<>> THEN 1
    ELSE IF Head(s) # Head(t) THEN IntCmp(Ord(Head(s)), Ord(Head(t)))
    ELSE StrCmp(Tail(s), Tail(t))

---------------------------------------------------------------------------
(* Hill notation *)

CH == {<<"C">>, <<"H">>}

_hill_compare(a, b) ==
    LET sa == AtomTable[a].symbol
        sb == AtomTable[b].symbol
    IN  IF sa = sb
        THEN IntCmp(AtomTable[a].isotope, AtomTable[b].isotope)
        ELSE IF sa \in CH
             THEN (IF sb \in CH THEN StrCmp(sa, sb) ELSE -1)
             ELSE StrCmp(sa, sb)

\* ISLT of CPython's listsort under cmp=_hill_compare
ISLT(x, y) == _hill_compare(x, y) < 0

Reverse(s) == [i \in DOMAIN s |-> s[Len(s) + 1 - i]]

\* count_run: the length of the run that starts the list (n >= 2 elements),
\* ascending, or strictly descending
RECURSIVE RunEnd(_, _, _)
RunEnd(s, i, descending) ==
    IF i > Len(s) THEN Len(s)
    ELSE IF ISLT(s[i], s[i - 1]) = descending THEN RunEnd(s, i + 1, descending)
    ELSE i - 1

\* the binary search of binarysort: where pivot belongs in s[l + 1 .. r]
RECURSIVE BinarySlot(_, _, _, _)
BinarySlot(s, pivot, l, r) ==
    IF l >= r THEN l
    ELSE LET p == l + ((r - l) \div 2)
         IN  IF ISLT(pivot, s[p + 1]) THEN BinarySlot(s, pivot, l, p)
             ELSE BinarySlot(s, pivot, p + 1, r)

\* binarysort: s[1 .. start - 1] is sorted; insert s[start], s[start + 1], ...
RECURSIVE BinarySort(_, _)
BinarySort(s, start) ==
    IF start > Len(s) THEN s
    ELSE LET l == BinarySlot(s, s[start], 0, start - 1)
             t == [i \in DOMAIN s |->
                     IF i <= l THEN s[i]
                     ELSE IF i = l + 1 THEN s[start]
                     ELSE IF i <= start THEN s[i - 1]
                     ELSE s[i]]
         IN  BinarySort(t, start + 1)

\* sorted(keys, cmp=_hill_compare) for fewer than 64 keys: the first run,
\* reversed when descending, then binary insertion of the rest
Sorted(keys) ==
    IF Len(keys) < 2 THEN keys
    ELSE LET descending == ISLT(keys[2], keys[1])
             n   == RunEnd(keys, 3, descending)
             run == IF descending
                    THEN Reverse(SubSeq(keys, 1, n)) \o SubSeq(keys, n + 1, Len(keys))
                    ELSE keys
         IN  BinarySort(run, n + 1)

\* atoms is the tally, keys its keys in the order the dict yields them
_convert_to_hill_notation(atoms, keys) ==
    LET order == Sorted(keys)
    IN  ListOf([i \in DOMAIN order |-> Leaf(atoms[order[i]], order[i])])

\* every order in which a dict may yield the keys of set S
Orders(S) ==
    {s \in [1 .. Cardinality(S) -> S] : \A i, j \in DOMAIN s : i # j => s[i] # s[j]}

---------------------------------------------------------------------------
(* Formula values: [structure, density, name].  An operation that may      *)
(* raise returns [err, val]: err is "none" or the exception's name.        *)

NoName == "None"

Formula0(structure) == [structure |-> structure, density |-> None, name |-> NoName]

Ok(v) == [err |-> "none", val |-> v]

Raise(e) == [err |-> e, val |-> Formula0(NoFrag)]

NumOk(x) == [err |-> "none", val |-> x]

NumRaise(e) == [err |-> e, val |-> None]

\* the sum of weight(el) * count over the items of a tally
RECURSIVE DictSum(_, _, _)
DictSum(atoms, keys, weight) ==
    IF keys = {} THEN Zero
    ELSE LET el == CHOOSE k \in keys : TRUE
         IN  NumAdd(NumMul(weight[el], atoms[el]),
                    DictSum(atoms, keys \ {el}, weight))

_atoms(f) == _count_atoms(f.structure)

MassOf == [el \in AllAtoms |-> AtomMass(el)]

NaturalMassOf == [el \in AllAtoms |-> NaturalMass(el)]

_mass(f) == LET atoms == _atoms(f) IN DictSum(atoms, DOMAIN atoms, MassOf)

total_natural_mass(f) ==
    LET atoms == _atoms(f) IN DictSum(atoms, DOMAIN atoms, NaturalMassOf)

total_isotope_mass(f) ==
    LET atoms == _atoms(f) IN DictSum(atoms, DOMAIN atoms, MassOf)

\* raises ZeroDivisionError when total_isotope_mass(f) is zero
natural_mass_ratio(f) == NumDiv(total_natural_mass(f), total_isotope_mass(f))

\* raises TypeError when the density is None, ZeroDivisionError as the ratio
\* does or when the ratio is zero
_get_natural_density(f) ==
    IF total_isotope_mass(f) = Zero THEN NumRaise("ZeroDivisionError")
    ELSE IF f.density = None THEN NumRaise("TypeError")
    ELSE IF natural_mass_ratio(f) = Zero THEN NumRaise("ZeroDivisionError")
    ELSE NumOk(NumDiv(f.density, natural_mass_ratio(f)))

_set_natural_density(f, natural_density) ==
    IF total_isotope_mass(f) = Zero \/ natural_mass_ratio(f) = Zero
    THEN Raise("ZeroDivisionError")
    ELSE Ok([f EXCEPT !.density = NumDiv(natural_density, natural_mass_ratio(f))])

\* if density: self.density = density
SetDensity(f, density) ==
    IF Truthy(density) THEN [f EXCEPT !.density = density] ELSE f

\* if name: self.name = name
SetName(f, name) == IF name # NoName THEN [f EXCEPT !.name = name] ELSE f

\* the density defaults to the atom's density when the tally has one key
DefaultDensity(f) ==
    IF f.density = None /\ Cardinality(DOMAIN _atoms(f)) = 1
    THEN [f EXCEPT !.density = AtomTable[CHOOSE el \in DOMAIN _atoms(f) : TRUE].density]
    ELSE f

\* if natural_density: self.natural_density = natural_density
SetNaturalDensity(f, natural_density) ==
    IF Truthy(natural_density) THEN _set_natural_density(f, natural_density)
    ELSE Ok(f)

AfterNaturalDensity(r, density, name) ==
    IF r.err # "none" THEN r
    ELSE Ok(DefaultDensity(SetName(SetDensity(r.val, density), name)))

\* the end of Formula.__init__: the overrides, then the default density
InitOverrides(f, density, natural_density, name) ==
    AfterNaturalDensity(SetNaturalDensity(f, natural_density), density, name)

\* Formula(): value is None or ''
FormulaEmpty == InitOverrides(Formula0(ListOf(<<>>)), None, None, NoName).val

\* Formula(value) for a Formula value: a copy of its attributes
FormulaCopy(value) == InitOverrides(value, None, None, NoName).val

\* Formula(value) for an atom
FormulaAtom(el) ==
    InitOverrides(Formula0(TupleOf(<<Leaf(One, el)>>)), None, None, NoName).val

\* Formula(value) for a dict, whose keys come in the order keys
FormulaDict(atoms, keys) ==
    InitOverrides(Formula0(_convert_to_hill_notation(atoms, keys)),
                  None, None, NoName).val

RECURSIVE _immutable(_)
_immutable(seq) ==
    TupleOf([i \in DOMAIN seq.items |->
               IF _isatom(seq.items[i]) THEN seq.items[i]
               ELSE [seq.items[i] EXCEPT !.frag = _immutable(seq.items[i].frag)]])

\* Formula(value, density, natural_density, name) for a valid structure
FormulaStructure(seq, density, natural_density, name) ==
    InitOverrides(Formula0(_immutable(seq)), density, natural_density, name)

_hill(f, keys) == FormulaDict(_atoms(f), keys)

__eq__(f, g) == f.structure = g.structure

\* as __add__, but other's nodes come first
AddMutant(f, g) ==
    [FormulaEmpty EXCEPT !.structure = TupleOf(g.structure.items \o f.structure.items)]

__add__(f, g) ==
    [FormulaEmpty EXCEPT !.structure = TupleOf(f.structure.items \o g.structure.items)]

__iadd__(f, g) ==
    [f EXCEPT !.structure = TupleOf(f.structure.items \o g.structure.items)]

\* as __rmul__, but every non-empty tree is wrapped, whatever other is
RmulMutant(f, other) ==
    LET ret == FormulaCopy(f)
    IN  IF f.structure.items # <<>>
        THEN [ret EXCEPT !.structure = TupleOf(<<Group(other, ret.structure)>>)]
        ELSE ret

\* other * f for a numeric other
__rmul__(f, other) ==
    LET ret == FormulaCopy(f)
    IN  IF other # One /\ f.structure.items # <<>>
        THEN IF Len(f.structure.items) = 1
             THEN LET nd == f.structure.items[1]
                  IN  [ret EXCEPT !.structure =
                          TupleOf(<<[nd EXCEPT !.count = NumMul(other, nd.count)]>>)]
             ELSE [ret EXCEPT !.structure = TupleOf(<<Group(other, ret.structure)>>)]
        ELSE ret

-------------------------------------------------------------------------------------------------------------------------------------------------
(* Mixtures.  A call is [fn, pairs, odd, density, natural_density, name]:  *)
(* pairs are the (formula, quantity) arguments in order, odd tells that a  *)
(* last formula came without a quantity, the rest are the keywords (None   *)
(* or NoName when not passed).                                             *)

\* pairs = [(Formula(args[i]), args[i+1]) ...]
MixPairs(call) ==
    [i \in DOMAIN call.pairs |->
        [f |-> FormulaCopy(call.pairs[i].f), q |-> call.pairs[i].q]]

\* "q > 0" for a Formula q: Python 2 orders an object that defines no
\* ordering after every number, so the test holds of every Formula
FormulaGtZero(f) == TRUE

\* mix_by_weight: [(q,f) for q,f in pairs if q > 0] binds q to the formula
\* and f to the quantity of each (formula, quantity) pair
WeightFilter(pairs) == SelectSeq(pairs, LAMBDA p : FormulaGtZero(p.f))

\* mix_by_volume: [(f,q) for f,q in pairs if q > 0]
VolumeFilter(pairs) == SelectSeq(pairs, LAMBDA p : NumGt(p.q, Zero))

\* q/f.mass for each pair
WeightCounts(pairs) ==
    [i \in DOMAIN pairs |-> NumDiv(pairs[i].q, _mass(pairs[i].f))]

\* q*f.density/f.mass for each pair
VolumeCounts(pairs) ==
    [i \in DOMAIN pairs |->
        NumDiv(NumMul(pairs[i].q, pairs[i].f.density), _mass(pairs[i].f))]

\* for f,q in pairs: result += (count/scale) * f
RECURSIVE Accumulate(_, _, _, _)
Accumulate(result, pairs, counts, scale) ==
    IF pairs = <<>> THEN result
    ELSE Accumulate(__iadd__(result,
                             __rmul__(Head(pairs).f, NumDiv(Head(counts), scale))),
                    Tail(pairs), Tail(counts), scale)

AfterMixNaturalDensity(r, call) ==
    IF r.err # "none" THEN r
    ELSE Ok(SetName(SetDensity(r.val, call.density), call.name))

\* the three overrides, in the order natural_density, density, name
MixOverrides(result, call) ==
    AfterMixNaturalDensity(SetNaturalDensity(result, call.natural_density), call)

AllDensities(pairs) == \A i \in DOMAIN pairs : Truthy(pairs[i].f.density)

\* as WeightVolume, but the sum is not divided by scale
WeightVolumeMutant(pairs, scale) ==
    NumSum([i \in DOMAIN pairs |-> NumDiv(pairs[i].q, pairs[i].f.density)])

\* sum(q/f.density for f,q in pairs)/scale
WeightVolume(pairs, scale) ==
    NumDiv(NumSum([i \in DOMAIN pairs |-> NumDiv(pairs[i].q, pairs[i].f.density)]),
           scale)

\* sum(q for _,q in pairs)/scale
VolumeVolume(pairs, scale) ==
    NumDiv(NumSum([i \in DOMAIN pairs |-> pairs[i].q]), scale)

\* result.density = result.mass/volume
DeriveDensity(result, volume) ==
    IF volume = Zero THEN Raise("ZeroDivisionError")
    ELSE Ok([result EXCEPT !.density = NumDiv(_mass(result), volume)])

WeightFinish(r, pairs, scale) ==
    IF r.err # "none" THEN r
    ELSE IF ~Truthy(r.val.density) /\ AllDensities(pairs)
         THEN DeriveDensity(r.val, WeightVolume(pairs, scale))
         ELSE r

WeightScaled(pairs, scale, call) ==
    IF scale = Zero THEN Raise("ZeroDivisionError")
    ELSE WeightFinish(
             MixOverrides(Accumulate(FormulaEmpty, pairs, WeightCounts(pairs), scale),
                          call),
             pairs, scale)

WeightBody(pairs, call) ==
    IF \E i \in DOMAIN pairs : _mass(pairs[i].f) = Zero
    THEN Raise("ZeroDivisionError")
    ELSE WeightScaled(pairs,
                      IF pairs = <<>> THEN One ELSE NumMin(WeightCounts(pairs)),
                      call)

mix_by_weight(call) ==
    IF call.odd THEN Raise("ValueError")
    ELSE WeightBody(WeightFilter(MixPairs(call)), call)

VolumeFinish(r, pairs, scale) ==
    IF r.err # "none" THEN r
    ELSE IF ~Truthy(r.val.density)
         THEN DeriveDensity(r.val, VolumeVolume(pairs, scale))
         ELSE r

VolumeScaled(pairs, scale, call) ==
    IF scale = Zero THEN Raise("ZeroDivisionError")
    ELSE VolumeFinish(
             MixOverrides(Accumulate(FormulaEmpty, pairs, VolumeCounts(pairs), scale),
                          call),
             pairs, scale)

VolumeBody(pairs, call) ==
    IF \E i \in DOMAIN pairs : _mass(pairs[i].f) = Zero
    THEN Raise("ZeroDivisionError")
    ELSE VolumeScaled(pairs,
                      IF pairs = <<>> THEN One ELSE NumMin(VolumeCounts(pairs)),
                      call)

mix_by_volume(call) ==
    IF call.odd THEN Raise("ValueError")
    ELSE IF ~AllDensities(MixPairs(call)) THEN Raise("ValueError")
    ELSE VolumeBody(VolumeFilter(MixPairs(call)), call)

---------------------------------------------------------------------------
(* Number formatting: "%g" % count and "%d" % isotope, on exact rationals. *)

\* the precision of "%g"
GPrecision == 6

RECURSIVE Pow10(_)
Pow10(k) == IF k = 0 THEN 1 ELSE 10 * Pow10(k - 1)

DigitSet == Range(Digits)

DigitChar(k) == Digits[k + 1]

DigitValue(c) == (CHOOSE i \in DOMAIN Digits : Digits[i] = c) - 1

\* "%d" % k for k >= 0
RECURSIVE IntText(_)
IntText(k) ==
    IF k < 10 THEN <<DigitChar(k)>> ELSE IntText(k \div 10) \o <<DigitChar(k % 10)>>

\* the decimal exponent e of x > 0: 10^e <= x < 10^(e+1)
RECURSIVE ExpUp(_, _)
ExpUp(x, e) == IF NumLt(x, Num(Pow10(e + 1))) THEN e ELSE ExpUp(x, e + 1)

RECURSIVE ExpDown(_, _)
ExpDown(x, k) ==
    IF ~NumLt(NumMul(x, Num(Pow10(k))), One) THEN -k ELSE ExpDown(x, k + 1)

Exp10(x) == IF NumLt(x, One) THEN ExpDown(x, 1) ELSE ExpUp(x, 0)

\* num/den rounded to the nearest integer, ties to even
RoundHalfEven(num, den) ==
    LET q == num \div den
        r == num % den
    IN  IF 2 * r > den \/ (2 * r = den /\ q % 2 = 1) THEN q + 1 ELSE q

\* x / 10^e rounded to GPrecision significant digits, as an integer
Mantissa(x, e) ==
    IF GPrecision - 1 - e >= 0
    THEN RoundHalfEven(x.n * (Pow10(GPrecision - 1 - e) \div GCD(Pow10(GPrecision - 1 - e), x.d)),
                       x.d \div GCD(Pow10(GPrecision - 1 - e), x.d))
    ELSE RoundHalfEven(x.n, x.d * Pow10(e - GPrecision + 1))

DigitsOfWidth(m, w) == [i \in 1 .. w |-> DigitChar((m \div Pow10(w - i)) % 10)]

RECURSIVE StripZeros(_)
StripZeros(ds) ==
    IF ds # <<>> /\ ds[Len(ds)] = "0" THEN StripZeros(SubSeq(ds, 1, Len(ds) - 1))
    ELSE ds

WithPoint(int, frac) == IF frac = <<>> THEN int ELSE int \o <<".">> \o frac

\* d.ddddde+XX
ExpStyle(m, e) ==
    WithPoint(<<DigitChar(m \div Pow10(GPrecision - 1))>>,
              StripZeros(Tail(DigitsOfWidth(m, GPrecision))))
    \o <<"e", IF e < 0 THEN "-" ELSE "+">>
    \o (IF Abs(e) < 10 THEN <<"0">> ELSE <<>>) \o IntText(Abs(e))

FixedStyle(m, e) ==
    IF e >= 0
    THEN WithPoint(SubSeq(DigitsOfWidth(m, GPrecision), 1, e + 1),
                   StripZeros(SubSeq(DigitsOfWidth(m, GPrecision), e + 2, GPrecision)))
    ELSE WithPoint(<<"0">>,
                   [i \in 1 .. (-e - 1) |-> "0"]
                   \o StripZeros(DigitsOfWidth(m, GPrecision)))

FmtStyled(m, e) ==
    IF e < -4 \/ e >= GPrecision THEN ExpStyle(m, e) ELSE FixedStyle(m, e)

\* rounding may carry into one more digit
FmtRounded(m, e) ==
    IF m = Pow10(GPrecision) THEN FmtStyled(Pow10(GPrecision - 1), e + 1)
    ELSE FmtStyled(m, e)

FmtPositive(x) == FmtRounded(Mantissa(x, Exp10(x)), Exp10(x))

\* "%g" % x
FmtG(x) ==
    IF x.n = 0 THEN <<"0">>
    ELSE IF x.n < 0 THEN <<"-">> \o FmtPositive([x EXCEPT !.n = -x.n])
    ELSE FmtPositive(x)

---------------------------------------------------------------------------
(* String rendering *)

\* Sym[iso] for an isotope without a symbol of its own, else the symbol
AtomText(el) ==
    IF _isisotope(el) /\ ~AtomTable[el].own
    THEN AtomTable[el].symbol \o <<"[">> \o IntText(AtomTable[el].isotope) \o <<"]">>
    ELSE AtomTable[el].symbol

RECURSIVE StrItems(_)
RECURSIVE StrNode(_)

\* as StrNode, but a group of one child is never parenthesised
StrNodeMutant(nd) ==
    IF _isatom(nd)
    THEN AtomText(nd.atom) \o (IF nd.count # One THEN FmtG(nd.count) ELSE <<>>)
    ELSE IF nd.count = One \/ Len(nd.frag.items) <= 1
         THEN StrItems(nd.frag.items)
         ELSE <<"(">> \o StrItems(nd.frag.items) \o <<")">> \o FmtG(nd.count)

\* the body of the loop of _str_atoms: the text of one (count, fragment)
StrNode(nd) ==
    IF _isatom(nd)
    THEN AtomText(nd.atom) \o (IF nd.count # One THEN FmtG(nd.count) ELSE <<>>)
    ELSE IF nd.count = One
         THEN StrItems(nd.frag.items)
         ELSE <<"(">> \o StrItems(nd.frag.items) \o <<")">> \o FmtG(nd.count)

StrItems(items) ==
    IF items = <<>> THEN <<>> ELSE StrNode(Head(items)) \o StrItems(Tail(items))

_str_atoms(seq) == StrItems(seq.items)

---------------------------------------------------------------------------
(* The formula grammar, on strings without white space (pyparsing skips    *)
(* white space before a token, and ~White() is then always satisfied).     *)
(* A parser returns [st, toks, rest]: st is "ok", "ParseException" (the    *)
(* expression does not match here: the enclosing expression may try an     *)
(* alternative) or the name of an exception raised by a parse action,      *)
(* which ends the parse; toks are the tokens, rest the unread text.        *)

Matched(toks, rest) == [st |-> "ok", toks |-> toks, rest |-> rest]

NoMatch == [st |-> "ParseException", toks |-> <<>>, rest |-> <<>>]

Aborted(e) == [st |-> e, toks |-> <<>>, rest |-> <<>>]

Drop(s, k) == SubSeq(s, k + 1, Len(s))

\* the longest prefix of s made of characters of S
RECURSIVE TakeWhile(_, _)
TakeWhile(s, S) ==
    IF s # <<>> /\ Head(s) \in S THEN <<Head(s)>> \o TakeWhile(Tail(s), S) ELSE <<>>

\* int(ds) for a digit string
RECURSIVE DecValue(_)
DecValue(ds) ==
    IF ds = <<>> THEN 0
    ELSE 10 * DecValue(SubSeq(ds, 1, Len(ds) - 1)) + DigitValue(ds[Len(ds)])

IntDigits(s) == TakeWhile(s, DigitSet)

FracDigits(s) == TakeWhile(Drop(s, Len(IntDigits(s)) + 1), DigitSet)

\* fract = Regex("(0|[1-9][0-9]*|)([.][0-9]*)") matches at the head of s
FractMatches(s) ==
    /\ Len(s) > Len(IntDigits(s))
    /\ s[Len(IntDigits(s)) + 1] = "."
    /\ (Len(IntDigits(s)) <= 1 \/ s[1] # "0")

\* float(t[0]) for the text fract matched
FractValue(s) ==
    Rat(DecValue(IntDigits(s)) * Pow10(Len(FracDigits(s))) + DecValue(FracDigits(s)),
        Pow10(Len(FracDigits(s))))

\* whole = Regex("[1-9][0-9]*") matches at the head of s
WholeMatches(s) == IntDigits(s) # <<>> /\ s[1] # "0"

\* count = Optional(~White()+(fract|whole), default=1): [st, num, rest];
\* float(".") raises ValueError
ParseCount(s) ==
    IF FractMatches(s)
    THEN IF IntDigits(s) = <<>> /\ FracDigits(s) = <<>>
         THEN [st |-> "ValueError", num |-> One, rest |-> s]
         ELSE [st |-> "ok", num |-> FractValue(s),
               rest |-> Drop(s, Len(IntDigits(s)) + 1 + Len(FracDigits(s)))]
    ELSE IF WholeMatches(s)
         THEN [st |-> "ok", num |-> Num(DecValue(IntDigits(s))),
               rest |-> Drop(s, Len(IntDigits(s)))]
         ELSE [st |-> "ok", num |-> One, rest |-> s]

\* '[' + Regex("[1-9][0-9]*") + ']' matches at the head of s
IsotopeMatches(s) ==
    /\ s # <<>>
    /\ s[1] = "["
    /\ WholeMatches(Tail(s))
    /\ Len(s) >= Len(IntDigits(Tail(s))) + 2
    /\ s[Len(IntDigits(Tail(s))) + 2] = "]"

\* isotope = Optional(~White()+openiso+Regex(...)+closeiso, default='0')
ParseIsotope(s) ==
    IF IsotopeMatches(s)
    THEN [iso |-> DecValue(IntDigits(Tail(s))),
          rest |-> Drop(s, Len(IntDigits(Tail(s))) + 2)]
    ELSE [iso |-> 0, rest |-> s]

\* symbol = Regex("[A-Z][a-z]*")
SymbolMatches(s) == s # <<>> /\ s[1] \in Range(UpperCase)

SymbolText(s) == <<s[1]>> \o TakeWhile(Tail(s), Range(LowerCase))

\* table.symbol(name): the atoms that carry the symbol (none: ValueError)
TableSymbol(name) ==
    {el \in AllAtoms : AtomTable[el].symbol = name
                        /\ (AtomTable[el].isotope = 0 \/ AtomTable[el].own)}

\* symbol[isotope]: the isotopes of element el of that mass number
TableIsotope(el, iso) ==
    {x \in AllAtoms : AtomTable[x].element = el /\ AtomTable[x].isotope = iso}

\* convert_element
ConvertElement(el, iso, cr) ==
    IF cr.st # "ok" THEN Aborted(cr.st)
    ELSE IF iso = 0 THEN Matched(<<Leaf(cr.num, el)>>, cr.rest)
    ELSE IF TableIsotope(el, iso) = {} THEN Aborted("ValueError")
    ELSE Matched(<<Leaf(cr.num, CHOOSE x \in TableIsotope(el, iso) : TRUE)>>, cr.rest)

ElementAfterIsotope(el, ir) == ConvertElement(el, ir.iso, ParseCount(ir.rest))

\* element = symbol+isotope+count
ParseElement(s) ==
    IF ~SymbolMatches(s) THEN NoMatch
    ELSE IF TableSymbol(SymbolText(s)) = {} THEN Aborted("ValueError")
    ELSE ElementAfterIsotope(CHOOSE el \in TableSymbol(SymbolText(s)) : TRUE,
                             ParseIsotope(Drop(s, Len(SymbolText(s)))))

\* OneOrMore(element), acc the tokens so far
RECURSIVE ParseElements(_, _)
ElementsAfter(r, s, acc) ==
    IF r.st = "ok" THEN ParseElements(r.rest, acc \o r.toks)
    ELSE IF r.st = "ParseException"
         THEN (IF acc = <<>> THEN NoMatch ELSE Matched(acc, s))
         ELSE r

ParseElements(s, acc) == ElementsAfter(ParseElement(s), s, acc)

\* convert_implicit and convert_explicit: fragment if count == 1 else
\* (count, fragment)
ConvertGroup(count, toks, rest) ==
    IF count = One THEN Matched(toks, rest)
    ELSE Matched(<<Group(count, ListOf(toks))>>, rest)

ImplicitAfterElements(count, r) ==
    IF r.st # "ok" THEN r ELSE ConvertGroup(count, r.toks, r.rest)

ImplicitAfterCount(cr) ==
    IF cr.st # "ok" THEN Aborted(cr.st)
    ELSE ImplicitAfterElements(cr.num, ParseElements(cr.rest, <<>>))

\* implicit_group = count+OneOrMore(element)
ParseImplicit(s) == ImplicitAfterCount(ParseCount(s))

RECURSIVE ParseFormula(_)

ExplicitAfterCount(toks, cr) ==
    IF cr.st # "ok" THEN Aborted(cr.st) ELSE ConvertGroup(cr.num, toks, cr.rest)

ExplicitAfterFormula(r) ==
    IF r.st # "ok" THEN r
    ELSE IF r.rest = <<>> \/ r.rest[1] # ")" THEN NoMatch
    ELSE ExplicitAfterCount(r.toks, ParseCount(Tail(r.rest)))

\* explicit_group = opengrp + formula + closegrp + count
ParseExplicit(s) ==
    IF s = <<>> \/ s[1] # "(" THEN NoMatch
    ELSE ExplicitAfterFormula(ParseFormula(Tail(s)))

GroupAfterImplicit(r, s) == IF r.st = "ParseException" THEN ParseExplicit(s) ELSE r

\* group = implicit_group | explicit_group
ParseGroup(s) == GroupAfterImplicit(ParseImplicit(s), s)

\* ZeroOrMore(Optional(separator)+group), acc the tokens so far
RECURSIVE ParseGroups(_, _)
GroupsAfter(r, s, acc) ==
    IF r.st = "ok" THEN ParseGroups(r.rest, acc \o r.toks)
    ELSE IF r.st = "ParseException" THEN Matched(acc, s)
    ELSE r

ParseGroups(s, acc) ==
    GroupsAfter(ParseGroup(IF s # <<>> /\ s[1] = "+" THEN Tail(s) ELSE s), s, acc)

FormulaAfterGroup(r) == IF r.st # "ok" THEN r ELSE ParseGroups(r.rest, r.toks)

\* formula << group + ZeroOrMore(Optional(separator)+group)
ParseFormula(s) == FormulaAfterGroup(ParseGroup(s))

GrammarEnd(r, s) ==
    IF r.st = "ParseException"
    THEN (IF s = <<>> THEN Matched(<<>>, <<>>) ELSE NoMatch)
    ELSE IF r.st = "ok" /\ r.rest # <<>> THEN NoMatch
    ELSE r

\* grammar = Optional(formula) + StringEnd()
ParseGrammar(s) == GrammarEnd(ParseFormula(s), s)

AfterParse(f, r) ==
    IF r.st # "ok" THEN Raise(r.st)
    ELSE Ok([f EXCEPT !.structure = _immutable(ListOf(r.toks))])

\* self.structure = _immutable(parser.parseString(input))
_parse_string(f, input) == AfterParse(f, ParseGrammar(input))

AfterParseInit(r) ==
    IF r.err # "none" THEN r ELSE InitOverrides(r.val, None, None, NoName)

\* Formula(value) for a string
FormulaString(value) ==
    IF value = <<>> THEN Ok(FormulaEmpty)
    ELSE AfterParseInit(_parse_string(Formula0(NoFrag), value))

\* __getstate__: the attributes, with the structure as a string
__getstate__(f) == [structure |-> _str_atoms(f.structure), density |-> f.density,
                    name |-> f.name]

\* __setstate__
__setstate__(input) ==
    _parse_string([structure |-> NoFrag, density |-> input.density, name |-> input.name],
                  input.structure)

-----
(* Formula arithmetic as a state machine: two names, a and b, each bound   *)
(* to a Formula value; every action is one statement of a caller.  last    *)
(* records the statement: its operands as they were before it ran.         *)

Regs == {"a", "b"}

ArithAtoms == {"H", "O", "D"}

NumericN == {Zero, One, Num(2), Num(3), Rat(1, 2)}

\* "H2O", "CaCO3+6H2O", "2H2O" and "D2O" as hand-built structures
StructH2O == ListOf(<<Leaf(Num(2), "H"), Leaf(One, "O")>>)

StructCaCO3Water ==
    ListOf(<<Leaf(One, "Ca"), Leaf(One, "C"), Leaf(Num(3), "O"),
             Group(Num(6), StructH2O)>>)

StructTwoWater == ListOf(<<Group(Num(2), StructH2O)>>)

StructD2O == ListOf(<<Leaf(Num(2), "D"), Leaf(One, "O")>>)

ExampleInputs ==
    { [seq |-> StructH2O, density |-> One, name |-> "water"],
      [seq |-> StructCaCO3Water, density |-> None, name |-> NoName],
      [seq |-> StructTwoWater, density |-> None, name |-> NoName],
      [seq |-> StructD2O, density |-> Rat(11, 10), name |-> NoName] }

NoOp ==
    [op |-> "init", dst |-> "a", x |-> FormulaEmpty, y |-> FormulaEmpty, n |-> None]

Init ==
    /\ reg = [r \in Regs |-> FormulaEmpty]
    /\ last = NoOp
    /\ steps = 0

Step(op, dst, x, y, n, result) ==
    /\ steps < MaxSteps
    /\ steps' = steps + 1
    /\ reg' = [reg EXCEPT ![dst] = result]
    /\ last' = [op |-> op, dst |-> dst, x |-> x, y |-> y, n |-> n]

\* r = Formula(el)
NewAtom ==
    \E r \in Regs, el \in ArithAtoms :
        Step("atom", r, FormulaEmpty, FormulaEmpty, None, FormulaAtom(el))

\* r = Formula(structure, density=..., name=...)
NewStructure ==
    \E r \in Regs, in \in ExampleInputs :
        Step("structure", r, FormulaEmpty, FormulaEmpty, None,
             FormulaStructure(in.seq, in.density, None, in.name).val)

\* r = Formula(q)
Copy ==
    \E r, q \in Regs :
        Step("copy", r, reg[q], FormulaEmpty, None, FormulaCopy(reg[q]))

\* r = q.hill
Hill ==
    \E r, q \in Regs :
        \E keys \in Orders(DOMAIN _atoms(reg[q])) :
            Step("hill", r, reg[q], FormulaEmpty, None, _hill(reg[q], keys))

\* r = p + q
Add ==
    \E r, p, q \in Regs :
        Step("add", r, reg[p], reg[q], None, __add__(reg[p], reg[q]))

\* r += q
IAdd ==
    \E r, q \in Regs :
        Step("iadd", r, reg[r], reg[q], None, __iadd__(reg[r], reg[q]))

\* r = n * q
RMul ==
    \E r, q \in Regs, n \in NumericN :
        Step("rmul", r, reg[q], FormulaEmpty, n, __rmul__(reg[q], n))

Next == NewAtom \/ NewStructure \/ Copy \/ Hill \/ Add \/ IAdd \/ RMul

Spec == Init /\ [][Next]_vars

---------------------------------------------------------------------------
(* Properties of the tally and of the arithmetic, under Spec *)

\* the index paths from the top level of seq down to each leaf
RECURSIVE LeafPaths(_)
LeafPaths(seq) ==
    UNION { IF _isatom(seq.items[i]) THEN {<<i>>}
            ELSE {<<i>> \o p : p \in LeafPaths(seq.items[i].frag)}
            : i \in DOMAIN seq.items }

RECURSIVE PathAtom(_, _)
PathAtom(seq, p) ==
    IF Len(p) = 1 THEN seq.items[p[1]].atom
    ELSE PathAtom(seq.items[p[1]].frag, Tail(p))

\* the product of the multipliers along path p
RECURSIVE PathProduct(_, _)
PathProduct(seq, p) ==
    IF Len(p) = 1 THEN seq.items[p[1]].count
    ELSE NumMul(seq.items[p[1]].count, PathProduct(seq.items[p[1]].frag, Tail(p)))

RECURSIVE PathSum(_, _)
PathSum(seq, paths) ==
    IF paths = {} THEN Zero
    ELSE LET p == CHOOSE q \in paths : TRUE
         IN  NumAdd(PathProduct(seq, p), PathSum(seq, paths \ {p}))

PathTally(seq) ==
    [el \in {PathAtom(seq, p) : p \in LeafPaths(seq)} |->
        PathSum(seq, {p \in LeafPaths(seq) : PathAtom(seq, p) = el})]

\* C5: the tally of every formula maps each atomic unit to the sum, over
\* the leaves that hold it, of the product of the multipliers on the path
\* from the top level to the leaf.
C5_TallyIsPathSum ==
    \A r \in Regs : _atoms(reg[r]) = PathTally(reg[r].structure)

\* C5: the tree of "CaCO3+6H2O", where O stands at the top level and in
\* the group of multiplier 6, tallies to {Ca:1, C:1, O:9, H:12}
C5_Witness ==
    \E r \in Regs :
        /\ reg[r].structure = _immutable(StructCaCO3Water)
        /\ _atoms(reg[r]) = [el \in {"Ca", "C", "O", "H"} |->
                                CASE el = "O" -> Num(9)
                                  [] el = "H" -> Num(12)
                                  [] OTHER    -> One]

\* the tree n * a has by the claim as stated
RmulTreeAsClaimed(a, n) ==
    IF Len(a.structure.items) = 1
    THEN <<[a.structure.items[1] EXCEPT !.count = NumMul(n, @)]>>
    ELSE <<Group(n, a.structure)>>

\* C7 as stated: n * a is the node (n*q, frag) when a has one top-level
\* node (q, frag), and the wrapping node (n, a.structure) otherwise, for
\* every numeric n.
C7_AsStated ==
    last.op = "rmul" =>
        reg[last.dst].structure.items = RmulTreeAsClaimed(last.x, last.n)

\* C7 amended: when n = 1 or a's tree is empty, n * a has a's own tree;
\* otherwise it is the node (n*q, frag) when a has one top-level node
\* (q, frag) and the wrapping node (n, a.structure) when it has several.
C7_RmulTree ==
    last.op = "rmul" =>
        reg[last.dst].structure =
            IF last.n = One \/ last.x.structure.items = <<>>
            THEN last.x.structure
            ELSE TupleOf(RmulTreeAsClaimed(last.x, last.n))

\* C7: a multiplication by n # 1 of a one-node tree, and one of a tree of
\* several nodes
C7_Witness ==
    /\ last.op = "rmul"
    /\ last.n # One
    /\ Len(last.x.structure.items) >= 2
    /\ reg[last.dst].structure.items = <<Group(last.n, last.x.structure)>>

\* the key-wise sum of two tallies
DictPlus(s, t) ==
    [el \in DOMAIN s \cup DOMAIN t |->
        NumAdd(IF el \in DOMAIN s THEN s[el] ELSE Zero,
               IF el \in DOMAIN t THEN t[el] ELSE Zero)]

\* C8: a + b and a += b give the tree of a's top-level nodes followed by
\* b's, whose tally is the key-wise sum of the two tallies and whose mass
\* is the sum of the two masses.
C8_AddConcatenates ==
    last.op \in {"add", "iadd"} =>
        LET result == reg[last.dst]
        IN  /\ result.structure =
                  TupleOf(last.x.structure.items \o last.y.structure.items)
            /\ _atoms(result) = DictPlus(_atoms(last.x), _atoms(last.y))
            /\ _mass(result) = NumAdd(_mass(last.x), _mass(last.y))

\* C8: a sum of two different non-empty formulas that share an atom
C8_Witness ==
    /\ last.op = "add"
    /\ last.x.structure.items # <<>>
    /\ last.y.structure.items # <<>>
    /\ last.x.structure.items # last.y.structure.items
    /\ DOMAIN _atoms(last.x) \cap DOMAIN _atoms(last.y) # {}
    /\ _mass(reg[last.dst]) # Zero

---------------------------------------------------------------------------
(* Density and natural density as a state machine over the same names:    *)
(* construction with overrides, plain assignment of density, and reads and *)
(* writes of the natural_density property.                                 *)

DensityStructures == {StructH2O, StructD2O, ListOf(<<Leaf(One, "O18")>>), ListOf(<<>>)}

DensityValues == {One, Num(2), Rat(11, 10)}

\* an operation that raised: the names keep their values
Raised(op, dst, x, n) ==
    /\ steps < MaxSteps
    /\ steps' = steps + 1
    /\ reg' = reg
    /\ last' = [op |-> op, dst |-> dst, x |-> x, y |-> FormulaEmpty, n |-> n]

\* r = Formula(structure, density=d, natural_density=nd)
DNew ==
    \E r \in Regs, seq \in DensityStructures,
       d \in {None, One}, nd \in {None, Num(2)} :
        LET res == FormulaStructure(seq, d, nd, NoName)
        IN  IF res.err = "none"
            THEN Step("structure", r, FormulaEmpty, FormulaEmpty, nd, res.val)
            ELSE Raised(res.err, r, FormulaEmpty, nd)

\* r.density = d
DAssign ==
    \E r \in Regs, d \in DensityValues \cup {None} :
        Step("set_density", r, reg[r], FormulaEmpty, d, [reg[r] EXCEPT !.density = d])

\* v = r.natural_density; last.n keeps v
DGet ==
    \E r \in Regs :
        LET res == _get_natural_density(reg[r])
        IN  IF res.err = "none"
            THEN Step("get_natural_density", r, reg[r], FormulaEmpty, res.val, reg[r])
            ELSE Raised(res.err, r, reg[r], None)

\* r.natural_density = v, for a fresh v or the v read last
DSet ==
    \E r \in Regs :
        \E v \in DensityValues
                 \cup (IF last.op = "get_natural_density" THEN {last.n} ELSE {}) :
            LET res == _set_natural_density(reg[r], v)
            IN  IF res.err = "none"
                THEN Step("set_natural_density", r, reg[r], FormulaEmpty, v, res.val)
                ELSE Raised(res.err, r, reg[r], v)

NextDensity == DNew \/ DAssign \/ DGet \/ DSet

SpecDensity == Init /\ [][NextDensity]_vars

\* C1: writing back the natural density just read from a formula whose
\* density is set leaves the density as it was.
C1_AsStated ==
    ( /\ last.op = "set_natural_density"
      /\ last.x.density # None
      /\ _get_natural_density(last.x).err = "none"
      /\ last.n = _get_natural_density(last.x).val )
    => reg[last.dst].density = last.x.density

---------------------------------------------------------------------------
(* Mixture calls: the initial state holds the arguments of one call, the   *)
(* action runs it; name a is bound to the value returned.                  *)

MaxPairs == 2

MixWater == FormulaStructure(StructH2O, One, None, "water").val

MixHeavyWater == FormulaStructure(StructD2O, Rat(11, 10), None, NoName).val

MixFormulas == {MixWater, MixHeavyWater, FormulaAtom("C"), FormulaAtom("O"), FormulaEmpty}

MixQuantities == {Num(-1), Zero, One, Num(2)}

MixArgs == [f : MixFormulas, q : MixQuantities]

MixCalls ==
    [ fn : {"mix_by_weight", "mix_by_volume"},
      pairs : UNION {[1 .. k -> MixArgs] : k \in 0 .. MaxPairs},
      odd : BOOLEAN,
      density : {None, Num(3)},
      natural_density : {None, Num(2)},
      name : {NoName, "mix"} ]

InitMix ==
    /\ reg = [r \in Regs |-> FormulaEmpty]
    /\ steps = 0
    /\ \E call \in MixCalls : last = [op |-> "call", call |-> call, err |-> "none"]

Return(res) ==
    /\ last' = [last EXCEPT !.op = "return", !.err = res.err]
    /\ reg' = IF res.err = "none" THEN [reg EXCEPT !["a"] = res.val] ELSE reg
    /\ steps' = steps + 1

MixByWeight ==
    /\ last.op = "call"
    /\ last.call.fn = "mix_by_weight"
    /\ Return(mix_by_weight(last.call))

MixByVolume ==
    /\ last.op = "call"
    /\ last.call.fn = "mix_by_volume"
    /\ Return(mix_by_volume(last.call))

NextMix == MixByWeight \/ MixByVolume

SpecMix == InitMix /\ [][NextMix]_vars

Mix(call) ==
    IF call.fn = "mix_by_weight" THEN mix_by_weight(call) ELSE mix_by_volume(call)

\* what the call in last returned: the exception's name and, with none, the value
Outcome == [err |-> last.err, val |-> IF last.err = "none" THEN reg["a"] ELSE Formula0(NoFrag)]

PositivePairs(pairs) == SelectSeq(pairs, LAMBDA p : NumGt(p.q, Zero))

\* C3: a pair whose quantity is <= 0 is dropped before anything is
\* computed: the call returns, or fails, as the call without such pairs.
C3_AsStated ==
    (last.op = "return" /\ ~last.call.odd) =>
        Outcome = Mix([last.call EXCEPT !.pairs = PositivePairs(@)])

\* C4: with no pair of positive quantity the call returns an empty
\* Formula value that carries the overrides passed.
C4_AsStated ==
    ( /\ last.op = "return"
      /\ ~last.call.odd
      /\ PositivePairs(last.call.pairs) = <<>> )
    => /\ last.err = "none"
       /\ reg["a"].structure.items = <<>>
       /\ Truthy(last.call.density) => reg["a"].density = last.call.density
       /\ last.call.name # NoName => reg["a"].name = last.call.name

\* the tally with every count doubled
Doubled(atoms) == [el \in DOMAIN atoms |-> NumAdd(atoms[el], atoms[el])]

SameTwice(call) ==
    /\ call.fn = "mix_by_weight"
    /\ ~call.odd
    /\ Len(call.pairs) = 2
    /\ call.pairs[1] = call.pairs[2]
    /\ NumGt(call.pairs[1].q, Zero)
    /\ NumGt(_mass(call.pairs[1].f), Zero)

---------------------------------------------------------------------------
(* Hill normalisation: the initial state holds a tally and the order in    *)
(* which the dict yields its keys; the action builds Formula(tally).       *)

MaxKeys == 3

HillAtoms == {"B", "C", "C13", "Ca", "H", "O", "O17", "O18"}

HillTallies ==
    UNION {[S -> {One, Num(2)}] : S \in {T \in SUBSET HillAtoms : Cardinality(T) <= MaxKeys}}

InitHill ==
    /\ reg = [r \in Regs |-> FormulaEmpty]
    /\ steps = 0
    /\ \E atoms \in HillTallies :
         \E keys \in Orders(DOMAIN atoms) :
            last = [op |-> "call", atoms |-> atoms, keys |-> keys]

\* a = Formula(atoms)
HillNormalize ==
    /\ last.op = "call"
    /\ last' = [last EXCEPT !.op = "return"]
    /\ reg' = [reg EXCEPT !["a"] = FormulaDict(last.atoms, last.keys)]
    /\ steps' = steps + 1

NextHill == HillNormalize

SpecHill == InitHill /\ [][NextHill]_vars

\* Hill order as the claim states it: Carbon, then Hydrogen, then the other
\* symbols alphabetically; within a symbol by mass number, the element (0) first
HillClass(el) ==
    IF AtomTable[el].symbol = <<"C">> THEN 0
    ELSE IF AtomTable[el].symbol = <<"H">> THEN 1 ELSE 2

HillBefore(a, b) ==
    \/ HillClass(a) < HillClass(b)
    \/ /\ HillClass(a) = HillClass(b)
       /\ \/ StrCmp(AtomTable[a].symbol, AtomTable[b].symbol) < 0
          \/ /\ AtomTable[a].symbol = AtomTable[b].symbol
             /\ AtomTable[a].isotope < AtomTable[b].isotope

\* C2: the hill tree of a tally is, whatever the order of its keys, one
\* node (count, unit) per unit with the units in Hill order.
C2_AsStated ==
    last.op = "return" =>
        LET items == reg["a"].structure.items
        IN  /\ Len(items) = Cardinality(DOMAIN last.atoms)
            /\ \A i \in DOMAIN items :
                 /\ _isatom(items[i])
                 /\ items[i].atom \in DOMAIN last.atoms
                 /\ items[i].count = last.atoms[items[i].atom]
            /\ \A i, j \in DOMAIN items :
                 i < j => HillBefore(items[i].atom, items[j].atom)

---------------------------------------------------------------------------
(* Formulas from text, and the pickle round trip.  A run takes one input,  *)
(* a text or a tree, builds a = Formula(input), takes its state and        *)
(* restores the state into b.                                              *)

MaxTokens == 4

Tokens ==
    { <<"H">>, <<"O">>, <<"[", "1", "8", "]">>, <<"(">>, <<")">>, <<"+">>,
      <<"2">>, <<"0", ".", "0">>, <<".", "5">> }

\* the texts made of at most k tokens
RECURSIVE TextsOf(_)
TextsOf(k) ==
    IF k = 0 THEN {<<>>}
    ELSE TextsOf(k - 1) \cup {t \o tok : t \in TextsOf(k - 1), tok \in Tokens}

Texts == TextsOf(MaxTokens)

StructOneWater == ListOf(<<Leaf(One, "Ca"), Group(One, StructH2O)>>)

StructNested ==
    ListOf(<<Group(Num(3), ListOf(<<Group(One, ListOf(<<Leaf(Num(2), "H")>>)),
                                    Group(Rat(1, 2), ListOf(<<Leaf(One, "O18")>>)),
                                    Group(Num(2), StructH2O)>>))>>)

TextStructures == {StructOneWater, StructNested, StructTwoWater, StructCaCO3Water}

NoState == [structure |-> <<>>, density |-> None, name |-> NoName]

InitText ==
    /\ reg = [r \in Regs |-> FormulaEmpty]
    /\ steps = 0
    /\ \/ \E t \in Texts :
            last = [op |-> "call", kind |-> "text", text |-> t,
                    structure |-> NoFrag, state |-> NoState, err |-> "none"]
       \/ \E seq \in TextStructures :
            last = [op |-> "call", kind |-> "structure", text |-> <<>>,
                    structure |-> seq, state |-> NoState, err |-> "none"]

Done(op, dst, res) ==
    /\ last' = [last EXCEPT !.op = op, !.err = res.err]
    /\ reg' = IF res.err = "none" THEN [reg EXCEPT ![dst] = res.val] ELSE reg
    /\ steps' = steps + 1

\* a = Formula(text)
NewString ==
    /\ last.op = "call"
    /\ last.kind = "text"
    /\ Done("new", "a", FormulaString(last.text))

\* a = Formula(structure)
NewTree ==
    /\ last.op = "call"
    /\ last.kind = "structure"
    /\ Done("new", "a", FormulaStructure(last.structure, None, None, NoName))

\* state = a.__getstate__()
GetState ==
    /\ last.op = "new"
    /\ last.err = "none"
    /\ last' = [last EXCEPT !.op = "getstate", !.state = __getstate__(reg["a"])]
    /\ steps' = steps + 1
    /\ UNCHANGED reg

\* b.__setstate__(state)
SetState ==
    /\ last.op = "getstate"
    /\ Done("setstate", "b", __setstate__(last.state))

NextText == NewString \/ NewTree \/ GetState \/ SetState

SpecText == InitText /\ [][NextText]_vars

\* number of occurrences of character c in text s
RECURSIVE Occurrences(_, _)
Occurrences(s, c) ==
    IF s = <<>> THEN 0
    ELSE (IF Head(s) = c THEN 1 ELSE 0) + Occurrences(Tail(s), c)

\* number of group nodes of seq, at any depth, that satisfy wrapped
RECURSIVE GroupsWhere(_, _)
GroupsWhere(seq, wrapped) ==
    IF seq.items = <<>> THEN 0
    ELSE (IF _isatom(Head(seq.items)) THEN 0
          ELSE (IF wrapped[Head(seq.items)] THEN 1 ELSE 0)
               + GroupsWhere(Head(seq.items).frag, wrapped))
         + GroupsWhere([seq EXCEPT !.items = Tail(@)], wrapped)

RECURSIVE NodesOf(_)
NodesOf(seq) ==
    UNION { {seq.items[i]} \cup (IF _isatom(seq.items[i]) THEN {}
                                 ELSE NodesOf(seq.items[i].frag))
            : i \in DOMAIN seq.items }

\* C9: the text rendered from a tree that the parser produced parses again,
\* to a tree with the same tally that renders to the same text.
C9_AsStated ==
    (last.kind = "text" /\ last.op = "setstate") =>
        /\ last.err = "none"
        /\ _atoms(reg["b"]) = _atoms(reg["a"])
        /\ _str_atoms(reg["b"].structure) = last.state.structure

\* C10 as stated: a group is parenthesised exactly when its count is not 1
\* and it has more than one child, so the text has one "(" and one ")" for
\* each such group.
C10_AsStated ==
    last.op = "getstate" =>
        LET claimed == [nd \in NodesOf(reg["a"].structure) |->
                           nd.count # One /\ Len(nd.frag.items) > 1]
        IN  /\ Occurrences(last.state.structure, "(")
                 = GroupsWhere(reg["a"].structure, claimed)
            /\ Occurrences(last.state.structure, ")")
                 = GroupsWhere(reg["a"].structure, claimed)

\* C10, amended: a group is parenthesised, and followed by its count, exactly
\* when its count is not 1, however many children it has: the text has one
\* "(" and one ")" for each group whose count is not 1, and a tree that is a
\* single group renders as its children, wrapped when the count is not 1.
C10_Parens ==
    last.op = "getstate" =>
        LET wrapped == [nd \in NodesOf(reg["a"].structure) |-> nd.count # One]
            items == reg["a"].structure.items
        IN  /\ Occurrences(last.state.structure, "(")
                 = GroupsWhere(reg["a"].structure, wrapped)
            /\ Occurrences(last.state.structure, ")")
                 = GroupsWhere(reg["a"].structure, wrapped)
            /\ (Len(items) = 1 /\ ~_isatom(items[1])) =>
                 last.state.structure =
                    IF items[1].count = One THEN _str_atoms(items[1].frag)
                    ELSE <<"(">> \o _str_atoms(items[1].frag) \o <<")">>
                         \o FmtG(items[1].count)

\* "2H" parses to one group of count 2 with the single child H, rendered "(H)2"
C10_Witness ==
    /\ last.op = "getstate"
    /\ last.text = <<"2", "H">>
    /\ reg["a"].structure = TupleOf(<<Group(Num(2), TupleOf(<<Leaf(One, "H")>>))>>)
    /\ last.state.structure = <<"(", "H", ")", "2">>

---------------------------------------------------------------------------
(* Equality, under Spec *)

\* the nodes of a tree in order, whatever sequence type holds them
RECURSIVE NodeList(_)
NodeList(seq) ==
    [i \in DOMAIN seq.items |->
        IF _isatom(seq.items[i]) THEN [count |-> seq.items[i].count,
                                       atom |-> seq.items[i].atom, nodes |-> <<>>]
        ELSE [count |-> seq.items[i].count, atom |-> NoAtom,
              nodes |-> NodeList(seq.items[i].frag)]]

\* C11: two formulas whose trees hold the same nodes in the same order
\* compare equal, however each was built.
C11_AsStated ==
    (NodeList(reg["a"].structure) = NodeList(reg["b"].structure))
        => __eq__(reg["a"], reg["b"])

---------------------------------------------------------------------------
(* Formulas as objects.  A heap holds the Formula objects and, apart, the  *)
(* sequences their structure attributes refer to, so that two objects may  *)
(* share one sequence (Formula(a) copies a's attributes, not the sequence) *)
(* and an assignment in place would show in both.  reg holds the heap:     *)
(* names, the object each name is bound to; objs, the attributes of each   *)
(* object; cells, the sequences.                                           *)

\* the value of object o: its attributes, with the sequence it refers to
Deref(h, o) ==
    [structure |-> h.cells[h.objs[o].structure],
     density   |-> h.objs[o].density,
     name      |-> h.objs[o].name]

\* a new sequence object
HeapCell(h, seq) == [h EXCEPT !.cells = Append(@, seq)]

\* a new Formula object with the density and name of v, referring to cell c
HeapObject(h, v, c) ==
    [h EXCEPT !.objs = Append(@, [structure |-> c, density |-> v.density,
                                  name |-> v.name])]

\* the object made last
Newest(h) == Len(h.objs)

\* a Formula built on a sequence of its own, with value v
HeapNew(h, v) == HeapObject(HeapCell(h, v.structure), v, Len(h.cells) + 1)

\* Formula(value): self.__dict__ = copy(value.__dict__), the sequence shared
HeapCopy(h, o) == HeapObject(h, FormulaCopy(Deref(h, o)), h.objs[o].structure)

\* as HeapSetStructure, but the sequence is changed in place
HeapSetStructureMutant(h, o, seq) == [h EXCEPT !.cells[h.objs[o].structure] = seq]

\* self.structure = seq: the attribute is bound to a new sequence
HeapSetStructure(h, o, seq) ==
    [HeapCell(h, seq) EXCEPT !.objs[o].structure = Len(h.cells) + 1]

\* p + q: ret = Formula(); ret.structure = tuple(...)
HeapAdd(h, p, q) ==
    HeapSetStructure(HeapNew(h, FormulaEmpty), Len(h.objs) + 1,
                     __add__(Deref(h, p), Deref(h, q)).structure)

\* p += q: self.structure = tuple(...); return self
HeapIAdd(h, p, q) ==
    HeapSetStructure(h, p, __iadd__(Deref(h, p), Deref(h, q)).structure)

\* n * q: ret = Formula(self); ret.structure = ... if other != 1 and self.structure
HeapRMul(h, q, n) ==
    IF n # One /\ Deref(h, q).structure.items # <<>>
    THEN HeapSetStructure(HeapCopy(h, q), Len(h.objs) + 1,
                          __rmul__(Deref(h, q), n).structure)
    ELSE HeapCopy(h, q)

\* q.hill: Formula(self.atoms)
HeapHill(h, q, keys) == HeapNew(h, _hill(Deref(h, q), keys))

\* pairs = [(Formula(args[i]),args[i+1]) ...]: a copy of each argument
RECURSIVE HeapCopies(_, _)
HeapCopies(h, args) ==
    IF args = <<>> THEN h ELSE HeapCopies(HeapCopy(h, Head(args)), Tail(args))

\* for f,q in pairs: result += (count/scale) * f
RECURSIVE HeapAccumulate(_, _, _, _, _)
HeapAccumulateOne(h, result) == HeapIAdd(h, result, Newest(h))

HeapAccumulate(h, result, ids, counts, scale) ==
    IF ids = <<>> THEN h
    ELSE HeapAccumulate(
             HeapAccumulateOne(HeapRMul(h, Head(ids), NumDiv(Head(counts), scale)),
                               result),
             result, Tail(ids), Tail(counts), scale)

\* the attributes that the end of a mixture call assigns to result
HeapSetAttributes(h, o, v) ==
    [h EXCEPT !.objs[o].density = v.density, !.objs[o].name = v.name]

\* the pairs of a call on objects: the values of the copies, with the quantities
HeapPairs(h, first, quantities) ==
    [i \in DOMAIN quantities |-> [f |-> Deref(h, first + i), q |-> quantities[i]]]

\* the indices of the pairs that the filter of the call keeps
KeptIndices(fn, pairs) ==
    IF fn = "mix_by_weight"
    THEN SelectSeq([i \in DOMAIN pairs |-> i], LAMBDA i : FormulaGtZero(pairs[i].f))
    ELSE SelectSeq([i \in DOMAIN pairs |-> i], LAMBDA i : NumGt(pairs[i].q, Zero))

MixCounts(fn, pairs) ==
    IF fn = "mix_by_weight" THEN WeightCounts(pairs) ELSE VolumeCounts(pairs)

MixScale(counts) == IF counts = <<>> THEN One ELSE NumMin(counts)

\* result = Formula(), the loop, then the attributes of the value v returned
HeapMixResult(h, fn, first, kept, pairs, v) ==
    HeapSetAttributes(
        HeapAccumulate(HeapNew(h, FormulaEmpty), Len(h.objs) + 1,
                       [i \in DOMAIN kept |-> first + kept[i]],
                       MixCounts(fn, [i \in DOMAIN kept |-> pairs[kept[i]]]),
                       MixScale(MixCounts(fn, [i \in DOMAIN kept |-> pairs[kept[i]]]))),
        Len(h.objs) + 1, v)

\* a mixture call on the objects args, with quantities >= 0: the copies are
\* made; a ValueError is raised before result = Formula(), a division by zero
\* after it and with nothing added to result yet; when the call returns, the
\* result is built by += from multiples of the copies
HeapMixCopied(h, fn, first, pairs, r) ==
    IF r.err = "ValueError" THEN [heap |-> h, err |-> r.err, result |-> 0]
    ELSE IF r.err # "none"
         THEN [heap |-> HeapNew(h, FormulaEmpty), err |-> r.err, result |-> 0]
    ELSE [heap |-> HeapMixResult(h, fn, first, KeptIndices(fn, pairs), pairs, r.val),
          err |-> "none", result |-> Len(h.objs) + 1]

HeapMixCall(fn, pairs) ==
    [fn |-> fn, pairs |-> pairs, odd |-> FALSE, density |-> None,
     natural_density |-> None, name |-> NoName]

HeapMix(h, fn, args, quantities) ==
    HeapMixCopied(HeapCopies(h, args), fn, Len(h.objs),
                  HeapPairs(HeapCopies(h, args), Len(h.objs), quantities),
                  IF fn = "mix_by_weight"
                  THEN mix_by_weight(HeapMixCall(fn, HeapPairs(HeapCopies(h, args),
                                                               Len(h.objs), quantities)))
                  ELSE mix_by_volume(HeapMixCall(fn, HeapPairs(HeapCopies(h, args),
                                                               Len(h.objs), quantities))))

HeapInputs ==
    { [seq |-> StructH2O, density |-> One, name |-> "water"],
      [seq |-> StructD2O, density |-> Rat(11, 10), name |-> NoName],
      [seq |-> ListOf(<<Leaf(One, "O")>>), density |-> None, name |-> NoName] }

HeapN == {One, Num(2)}

HeapQuantities == {Zero, Num(2)}

\* a = Formula(); b = Formula()
InitHeap ==
    /\ reg = [names |-> [r \in Regs |-> IF r = "a" THEN 1 ELSE 2],
              objs  |-> <<[structure |-> 1, density |-> None, name |-> NoName],
                          [structure |-> 2, density |-> None, name |-> NoName]>>,
              cells |-> <<ListOf(<<>>), ListOf(<<>>)>>]
    /\ last = [op |-> "init", target |-> 0, before |-> 0]
    /\ steps = 0

\* the statement r = <expression>, the expression leaving heap h and its
\* value the newest object of h
Bind(op, r, h) ==
    /\ steps < MaxSteps
    /\ steps' = steps + 1
    /\ reg' = [h EXCEPT !.names[r] = Newest(h)]
    /\ last' = [op |-> op, target |-> Newest(h), before |-> 0]

\* r = Formula(structure, density=..., name=...)
HNew ==
    \E r \in Regs, in \in HeapInputs :
        Bind("structure", r,
             HeapNew(reg, FormulaStructure(in.seq, in.density, None, in.name).val))

\* r = Formula(q)
HCopy == \E r, q \in Regs : Bind("copy", r, HeapCopy(reg, reg.names[q]))

\* r = p + q
HAdd ==
    \E r, p, q \in Regs : Bind("add", r, HeapAdd(reg, reg.names[p], reg.names[q]))

\* r = n * q
HRMul ==
    \E r, q \in Regs, n \in HeapN : Bind("rmul", r, HeapRMul(reg, reg.names[q], n))

\* r = q.hill
HHill ==
    \E r, q \in Regs :
        \E keys \in Orders(DOMAIN _atoms(Deref(reg, reg.names[q]))) :
            Bind("hill", r, HeapHill(reg, reg.names[q], keys))

\* r += q: r stays bound to the object that __iadd__ returns, self
HIAdd ==
    \E r, q \in Regs :
        /\ steps < MaxSteps
        /\ steps' = steps + 1
        /\ reg' = HeapIAdd(reg, reg.names[r], reg.names[q])
        /\ last' = [op |-> "iadd", target |-> reg.names[r],
                    before |-> reg.objs[reg.names[r]].structure]

\* r = mix_by_weight(a, 1, b, q) or r = mix_by_volume(a, 1, b, q); when the
\* call raises, r keeps its object
Mixed(r, res) ==
    /\ steps < MaxSteps
    /\ steps' = steps + 1
    /\ reg' = IF res.err = "none" THEN [res.heap EXCEPT !.names[r] = res.result]
              ELSE res.heap
    /\ last' = [op |-> IF res.err = "none" THEN "mix" ELSE res.err,
                target |-> res.result, before |-> 0]

HMixByWeight ==
    \E r \in Regs, q \in HeapQuantities :
        Mixed(r, HeapMix(reg, "mix_by_weight",
                         <<reg.names["a"], reg.names["b"]>>, <<One, q>>))

HMixByVolume ==
    \E r \in Regs, q \in HeapQuantities :
        Mixed(r, HeapMix(reg, "mix_by_volume",
                         <<reg.names["a"], reg.names["b"]>>, <<One, q>>))

NextHeap ==
    HNew \/ HCopy \/ HAdd \/ HRMul \/ HHill \/ HIAdd \/ HMixByWeight \/ HMixByVolume

SpecHeap == InitHeap /\ [][NextHeap]_vars

\* C12: a step changes the structure, density and name of no existing
\* object, except that += gives its left operand a new structure; the
\* left operand keeps its density and name.
C12_Frame ==
    [][ /\ \A o \in DOMAIN reg.objs :
             \/ Deref(reg', o) = Deref(reg, o)
             \/ /\ last'.op = "iadd"
                /\ o = last'.target
                /\ Deref(reg', o).density = Deref(reg, o).density
                /\ Deref(reg', o).name = Deref(reg, o).name
        /\ \A r \in Regs :
             reg'.names[r] = reg.names[r] \/ reg'.names[r] > Len(reg.objs) ]_vars

\* a += b has just extended a while another object, a copy or a multiple by 1
\* of a, still refers to the sequence a had: that object keeps the old tree
C12_Witness ==
    /\ last.op = "iadd"
    /\ \E o \in DOMAIN reg.objs :
         /\ o # last.target
         /\ reg.objs[o].structure = last.before
         /\ Deref(reg, o).structure.items # <<>>
         /\ Len(Deref(reg, last.target).structure.items)
              > Len(Deref(reg, o).structure.items)

====
